---- MODULE Spec2Model ----
(***************************************************************************)
(* Mindbook backend: the document chunking library                         *)
(* (src/rag/ingestion/utils.py), the user-provisioning webhook             *)
(* (src/routes/userRoutes.py), the request-logging middleware              *)
(* (src/middleware/logging_middleware.py), the task-queue integration      *)
(* (src/services/celery.py) and configuration loading                      *)
(* (src/config/index.py), each as a state machine over shared module       *)
(* variables.  Every component has its own specification; the variables of *)
(* the other components stay at their initial values.                      *)
(***************************************************************************)
EXTENDS Integers, Sequences, FiniteSets, TLC

VARIABLES
    \* ---- chunk_by_title / separate_content_types (utils.py)
    elements,               \* the argument of chunk_by_title
    pos,                    \* number of elements the for-loop has consumed
    chunks,                 \* local list `chunks`
    current_texts,          \* local list `current_texts`
    current_elements,       \* local list `current_elements`
    current_char_count,     \* local int `current_char_count`
    current_page,           \* local int `current_page`
    cpc,                    \* "loop" | "returned" | "classified"
    content_data,           \* separate_content_types result per returned chunk
    title_splits,           \* history: positions of the Title/Header elements
                            \* reached with current_char_count >= 500
    \* ---- create_user (userRoutes.py) and the users table behind supabase
    users,                  \* rows of table "users", in insertion order
    unique_clerk_id,        \* does the table enforce UNIQUE(clerk_id)?
    hpc,                    \* per handler: "idle" | "check" | "insert" | "done"
    payload,                \* per handler: clerk_webhook_data
    clerk_id,               \* per handler: local `clerk_id`
    response,               \* per handler: what the route answered
    calls,                  \* number of create_user calls received so far
    created_calls,          \* history: user.created calls received per clerk_id
    \* ---- LoggingMiddleware.dispatch (logging_middleware.py)
    mpc,                    \* per request: "idle" | "awaiting" | "returned"
                            \*              | "raised" | "sent"
    request_id,             \* per request: local `request_id`
    context,                \* per request: its ambient logging context
    rlog,                   \* per request: the records logged for it
    downstream,             \* per request: what call_next gave
    sent,                   \* per request: the response on its way to the client
    used_ids,               \* the uuid4 values generated so far
    requests_seen,          \* number of requests dispatched so far
    \* ---- the worker's task lifecycle (celery.py)
    wpc,                    \* "idle" | "body" | "failure" | "postrun"
    task,                   \* the task being run: [id, args]
    wctx,                   \* the worker's ambient logging context
    wlog,                   \* the records logged for the task being run
    pd_outcome,             \* what process_document gave to the task body
    result,                 \* what the task body gave
    tasks_run,              \* number of tasks the worker has taken
    \* ---- configuration loading (config/index.py)
    environ,                \* os.environ after load_dotenv()
    cfg_pc,                 \* "start" | "loaded" | "failed"
    appConfig,              \* the module's appConfig once loaded
    config_error            \* the message of the ValueError raised

chunkVars == <<elements, pos, chunks, current_texts, current_elements,
               current_char_count, current_page, cpc, content_data,
               title_splits>>

hookVars == <<users, unique_clerk_id, hpc, payload, clerk_id, response, calls,
              created_calls>>

mwVars == <<mpc, request_id, context, rlog, downstream, sent, used_ids,
            requests_seen>>

workerVars == <<wpc, task, wctx, wlog, pd_outcome, result, tasks_run>>

configVars == <<environ, cfg_pc, appConfig, config_error>>

vars == <<chunkVars, hookVars, mwVars, workerVars, configVars>>

(***************************************************************************)
(* Bounds of the model.                                                    *)
(***************************************************************************)
MaxElems == 3
MaxCalls == 3
MaxRequests == 3
MaxTasks == 3

(***************************************************************************)
(* Strings.  A Python str is modelled run-length encoded: a sequence of    *)
(* runs [ch, n], n >= 1, adjacent runs holding different characters.       *)
(* "B" * 600 is <<[ch |-> "B", n |-> 600>>; "" is << >>.                    *)
(***************************************************************************)
Str(c, k) == IF k = 0 THEN << >> ELSE << [ch |-> c, n |-> k] >>

\* str + str
Concat(s, t) ==
    IF s = << >> THEN t
    ELSE IF t = << >> THEN s
    ELSE IF s[Len(s)].ch = t[1].ch
         THEN SubSeq(s, 1, Len(s) - 1)
              \o << [ch |-> t[1].ch, n |-> s[Len(s)].n + t[1].n] >>
              \o SubSeq(t, 2, Len(t))
         ELSE s \o t

\* len(str)
RECURSIVE StrLen(_)
StrLen(s) == IF s = << >> THEN 0 ELSE s[1].n + StrLen(Tail(s))

\* the separator "\n\n"
SEP == Str("\n", 2)

\* "\n\n".join(texts)
RECURSIVE Join(_)
Join(texts) ==
    IF texts = << >> THEN << >>
    ELSE IF Len(texts) = 1 THEN texts[1]
    ELSE Concat(Concat(texts[1], SEP), Join(Tail(texts)))

(***************************************************************************)
(* chunk_by_title parameters (defaults of the signature).                  *)
(***************************************************************************)
max_characters == 3000
new_after_n_chars == 2400

\* a combine threshold below the default of the signature
LowCombineThreshold == new_after_n_chars \div 8

combine_text_under_n_chars == 500

(***************************************************************************)
(* Elements.  Every extractor builds SimpleElement(text, element_type,     *)
(* metadata=SimpleMetadata(page_number)).                                  *)
(***************************************************************************)
SimpleElement(text, element_type, page_number) ==
    [text |-> text, element_type |-> element_type,
     metadata |-> [page_number |-> page_number]]

\* type(element).__name__ : the name of the element's class.  The only
\* element class of the module is the dataclass SimpleElement.
TypeName(element) == "SimpleElement"

\* text lengths, element types and page numbers the inputs are drawn from
ElementLens == {400, 1500, 2700, 3100}
ElementTypes == {"NarrativeText", "Title", "Table"}
PageNumbers == {1, 2}

\* _extract_docx / _extract_pptx: paragraphs are prose, tables are HTML
ElementText(element_type, k) ==
    IF element_type = "Table" THEN Str("<", k) ELSE Str("B", k)

ElementUniverse ==
    { SimpleElement(ElementText(t, k), t, p) :
        t \in ElementTypes, k \in ElementLens, p \in PageNumbers }

SeqsUpTo(S, n) == UNION { [1..k -> S] : k \in 0..n }

SimpleChunk(text, page_number, orig_elements) ==
    [text |-> text,
     metadata |-> [page_number |-> page_number,
                   orig_elements |-> orig_elements]]

(***************************************************************************)
(* chunk_by_title, first pass: one iteration of `for element in elements`. *)
(***************************************************************************)
is_title(element) == element.element_type \in {"Title", "Header"}

\* should_new_chunk without the title rule
should_new_chunk_no_title(element, count, texts) ==
    \/ count >= new_after_n_chars
    \/ count + StrLen(element.text) > max_characters /\ texts # << >>

should_new_chunk(element, count, texts) ==
    \/ is_title(element) /\ count >= combine_text_under_n_chars
    \/ count >= new_after_n_chars
    \/ count + StrLen(element.text) > max_characters /\ texts # << >>

\* "".join(texts)
RECURSIVE JoinNoSeparator(_)
JoinNoSeparator(texts) ==
    IF texts = << >> THEN << >>
    ELSE Concat(texts[1], JoinNoSeparator(Tail(texts)))

\* EmitChunk joining the texts without the separator
EmitChunkNoSeparator(texts, page, elems) ==
    SimpleChunk(JoinNoSeparator(texts), page, elems)

\* the chunk emitted on closure and by the final flush
EmitChunk(texts, page, elems) == SimpleChunk(Join(texts), page, elems)

ChunkLoop ==
    /\ cpc = "loop"
    /\ pos < Len(elements)
    /\ LET element == elements[pos + 1]
           element_len == StrLen(element.text)
           page == element.metadata.page_number
           close == should_new_chunk(element, current_char_count, current_texts)
                    /\ current_texts # << >>
       IN /\ current_page' = page
          /\ chunks' = IF close
                       THEN Append(chunks,
                                   EmitChunk(current_texts, page, current_elements))
                       ELSE chunks
          /\ current_texts' = Append(IF close THEN << >> ELSE current_texts,
                                     element.text)
          /\ current_elements' = Append(IF close THEN << >> ELSE current_elements,
                                        element)
          /\ current_char_count' = (IF close THEN 0 ELSE current_char_count)
                                   + element_len
          /\ title_splits' =
                IF is_title(element)
                   /\ current_char_count >= combine_text_under_n_chars
                THEN title_splits \cup {pos + 1}
                ELSE title_splits
    /\ pos' = pos + 1
    /\ UNCHANGED <<elements, cpc, content_data>>

(***************************************************************************)
(* chunk_by_title, merge pass.                                             *)
(***************************************************************************)
CanMerge(cs, i, current) ==
    /\ i + 1 <= Len(cs)
    /\ StrLen(current.text) < combine_text_under_n_chars
    /\ StrLen(current.text) + StrLen(cs[i + 1].text) <= max_characters

MergeTwo(current, next_chunk) ==
    SimpleChunk(Concat(Concat(current.text, SEP), next_chunk.text),
                current.metadata.page_number,
                current.metadata.orig_elements \o next_chunk.metadata.orig_elements)

\* the inner while: <<i, current>> when it exits (i is 1-based here)
RECURSIVE MergeInner(_, _, _)
MergeInner(cs, i, current) ==
    IF CanMerge(cs, i, current)
    THEN MergeInner(cs, i + 1, MergeTwo(current, cs[i + 1]))
    ELSE << i, current >>

\* the outer while
RECURSIVE MergeOuter(_, _, _)
MergeOuter(cs, i, merged_chunks) ==
    IF i > Len(cs) THEN merged_chunks
    ELSE LET r == MergeInner(cs, i, cs[i])
         IN MergeOuter(cs, r[1] + 1, Append(merged_chunks, r[2]))

MergePass(cs) == IF Len(cs) > 1 THEN MergeOuter(cs, 1, << >>) ELSE cs

\* ChunkFinish without the flush of the last chunk
ChunkFinishNoFlush ==
    /\ cpc = "loop"
    /\ pos = Len(elements)
    /\ elements # << >>
    /\ chunks' = MergePass(chunks)
    /\ cpc' = "returned"
    /\ UNCHANGED <<elements, pos, current_texts, current_elements,
                   current_char_count, current_page, content_data,
                   title_splits>>

\* after the loop: flush the last chunk, merge, return
ChunkFinish ==
    /\ cpc = "loop"
    /\ pos = Len(elements)
    /\ elements # << >>
    /\ LET flushed == IF current_texts # << >>
                      THEN Append(chunks, EmitChunk(current_texts, current_page,
                                                    current_elements))
                      ELSE chunks
       IN chunks' = MergePass(flushed)
    /\ cpc' = "returned"
    /\ UNCHANGED <<elements, pos, current_texts, current_elements,
                   current_char_count, current_page, content_data,
                   title_splits>>

\* `if not elements: return []`
ChunkEmpty ==
    /\ cpc = "loop"
    /\ elements = << >>
    /\ chunks' = << >>
    /\ cpc' = "returned"
    /\ UNCHANGED <<elements, pos, current_texts, current_elements,
                   current_char_count, current_page, content_data,
                   title_splits>>

(***************************************************************************)
(* separate_content_types(chunk, source_type)                              *)
(***************************************************************************)
\* the for-loop over chunk.metadata.orig_elements, carrying content_data
RECURSIVE ScanElements(_, _, _)
ScanElements(elems, is_url_source, cd) ==
    IF elems = << >> THEN cd
    ELSE LET element == Head(elems)
             element_type == TypeName(element)
             \* getattr(element.metadata, "text_as_html", element.text)
             table_html == IF "text_as_html" \in DOMAIN element.metadata
                           THEN element.metadata.text_as_html
                           ELSE element.text
             has_image == /\ "image_base64" \in DOMAIN element.metadata
                          /\ element.metadata.image_base64 # "None"
             next == IF element_type = "Table"
                     THEN [cd EXCEPT !.types = Append(@, "table"),
                                     !.tables = Append(@, table_html)]
                     ELSE IF element_type = "Image" /\ ~is_url_source /\ has_image
                     THEN [cd EXCEPT !.types = Append(@, "image"),
                                     !.images = Append(@, element.metadata.image_base64)]
                     ELSE cd
         IN ScanElements(Tail(elems), is_url_source, next)

Range(s) == { s[i] : i \in DOMAIN s }

separate_content_types(chunk, source_type) ==
    LET cd0 == [text |-> chunk.text, tables |-> << >>, images |-> << >>,
                types |-> << "text" >>]
        cd == ScanElements(chunk.metadata.orig_elements, source_type = "url", cd0)
    IN \* list(set(types)): the order is unspecified, kept here as a set
       [text |-> cd.text, tables |-> cd.tables, images |-> cd.images,
        types |-> Range(cd.types)]

SourceTypes == {"file", "url"}

\* the pipeline classifies every chunk chunk_by_title returned
Classify ==
    /\ cpc = "returned"
    /\ \E source_type \in SourceTypes :
         content_data' = [i \in DOMAIN chunks |->
                             separate_content_types(chunks[i], source_type)]
    /\ cpc' = "classified"
    /\ UNCHANGED <<elements, pos, chunks, current_texts, current_elements,
                   current_char_count, current_page, title_splits>>


(***************************************************************************)
(* Python values of a JSON body: None, str, int, dict.                     *)
(***************************************************************************)
PyNone == [t |-> "None"]
PyStr(x) == [t |-> "str", v |-> x]
PyInt(x) == [t |-> "int", v |-> x]
PyDict(f) == [t |-> "dict", v |-> f]
EmptyDict == PyDict(<< >>)

\* d.get(k)
Get(d, k) == IF k \in DOMAIN d.v THEN d.v[k] ELSE PyNone

\* bool(x)
Truthy(x) ==
    CASE x.t = "None" -> FALSE
      [] x.t = "str"  -> x.v # ""
      [] x.t = "int"  -> x.v # 0
      [] x.t = "dict" -> DOMAIN x.v # {}

\* isinstance(x, dict) / isinstance(x, str)
IsInstance(x, ty) == x.t = ty

(***************************************************************************)
(* create_user: the route's answers.                                       *)
(***************************************************************************)
\* raise HTTPException(status_code, detail)
HTTPException(status_code, detail) ==
    [status |-> status_code, body |-> [detail |-> detail]]

\* return {...}: FastAPI answers 200 with the mapping as body
Return(body) == [status |-> 200, body |-> body]

NoResponse == [status |-> 0, body |-> [detail |-> << >>]]

InvalidFormat400 == HTTPException(400, << "Invalid webhook payload format" >>)
InvalidUserData400 ==
    HTTPException(400, << "Missing or invalid user data in webhook payload" >>)
InvalidClerkId400 ==
    HTTPException(400, << "Missing or invalid clerk_id in user data" >>)
CreateFailed500 == HTTPException(500, << "Failed to create user in database" >>)
\* the outer `except Exception as e` wrapping str(e)
Internal500(err) ==
    HTTPException(500,
        << "Internal server error occurred while processing webhook ", err >>)

Ignored(event_type) ==
    Return([message |-> << "Event type '", event_type, "' ignored" >>])
AlreadyExists(cid) ==
    Return([message |-> << "User already exists" >>, clerk_id |-> cid])
Created(row) ==
    Return([message |-> << "User created successfully" >>, user |-> row])

\* steps 1-4 of the route: the answer validation gives, or NoResponse when
\* the payload passes and the handler goes on to the datastore
Validate(data) ==
    IF ~IsInstance(data, "dict") THEN InvalidFormat400
    ELSE LET event_type == Get(data, "type")
             user_data == Get(data, "data")
         IN IF ~(IsInstance(event_type, "str") /\ event_type.v = "user.created")
            THEN Ignored(event_type)
            ELSE IF ~Truthy(user_data) \/ ~IsInstance(user_data, "dict")
            THEN InvalidUserData400
            ELSE LET cid == Get(user_data, "id")
                 IN IF ~Truthy(cid) \/ ~IsInstance(cid, "str")
                    THEN InvalidClerkId400
                    ELSE NoResponse

\* the clerk_id of a payload that passes validation
ClerkIdOf(data) == Get(Get(data, "data"), "id").v

(***************************************************************************)
(* The users table.                                                        *)
(***************************************************************************)
\* .select("clerk_id").eq("clerk_id", cid).execute().data
SelectByClerkId(table, cid) ==
    SelectSeq(table, LAMBDA row : row.clerk_id = cid)

\* the row .insert({"clerk_id": cid}) stores: the datastore assigns the id
NewRow(table, cid) == [id |-> Len(table) + 1, clerk_id |-> cid]

\* does the datastore refuse the insert?  Only a UNIQUE(clerk_id) constraint
\* of the table does.
InsertRefused(table, cid) ==
    unique_clerk_id /\ SelectByClerkId(table, cid) # << >>

(***************************************************************************)
(* create_user as a handler h of the server.  The two datastore calls are  *)
(* separate requests to an external service; handlers of different server  *)
(* workers interleave between them.                                        *)
(***************************************************************************)
Handlers == {"h1", "h2"}
ClerkIds == {"user_a", "user_b"}

\* the webhook bodies the handlers are given
DataValues ==
    { PyNone, PyStr("x"), EmptyDict,
      PyDict([email |-> PyStr("e")]),
      PyDict([id |-> PyInt(7)]),
      PyDict([id |-> PyStr("")]) }
    \cup { PyDict([id |-> PyStr(c)]) : c \in ClerkIds }

Payloads ==
    { PyDict([type |-> PyStr("user.created"), data |-> d]) : d \in DataValues }
    \cup { PyDict([type |-> PyStr("user.created")]),
           PyDict([type |-> PyStr("user.updated"),
                   data |-> PyDict([id |-> PyStr("user_a")])]),
           PyDict([data |-> PyDict([id |-> PyStr("user_a")])]) }

\* lines 25-58: the handler is entered, validates, and either answers or
\* goes on to the existence check
Receive(h, data) ==
    /\ hpc[h] = "idle"
    /\ calls < MaxCalls
    /\ calls' = calls + 1
    /\ payload' = [payload EXCEPT ![h] = data]
    /\ LET answer == Validate(data)
       IN IF answer = NoResponse
          THEN /\ hpc' = [hpc EXCEPT ![h] = "check"]
               /\ clerk_id' = [clerk_id EXCEPT ![h] = ClerkIdOf(data)]
               /\ created_calls' =
                    [created_calls EXCEPT ![ClerkIdOf(data)] = @ + 1]
               /\ UNCHANGED response
          ELSE /\ hpc' = [hpc EXCEPT ![h] = "done"]
               /\ response' = [response EXCEPT ![h] = answer]
               /\ UNCHANGED <<clerk_id, created_calls>>
    /\ UNCHANGED <<users, unique_clerk_id>>

\* CheckExisting with the existence check lost: every call goes on to insert
CheckExistingSkipped(h) ==
    /\ hpc[h] = "check"
    /\ hpc' = [hpc EXCEPT ![h] = "insert"]
    /\ UNCHANGED response
    /\ UNCHANGED <<users, unique_clerk_id, payload, clerk_id, calls, created_calls>>

\* lines 60-69: the existence check
CheckExisting(h) ==
    /\ hpc[h] = "check"
    /\ LET existing_user == SelectByClerkId(users, clerk_id[h])
       IN IF existing_user # << >>
          THEN /\ hpc' = [hpc EXCEPT ![h] = "done"]
               /\ response' = [response EXCEPT ![h] = AlreadyExists(clerk_id[h])]
          ELSE /\ hpc' = [hpc EXCEPT ![h] = "insert"]
               /\ UNCHANGED response
    /\ UNCHANGED <<users, unique_clerk_id, payload, clerk_id, calls, created_calls>>

\* InsertUser as an insert-if-absent (a re-check made atomically with the
\* insert), which the route does not do
InsertUserIfAbsent(h) ==
    /\ hpc[h] = "insert"
    /\ hpc' = [hpc EXCEPT ![h] = "done"]
    /\ IF SelectByClerkId(users, clerk_id[h]) # << >>
       THEN /\ response' = [response EXCEPT ![h] = AlreadyExists(clerk_id[h])]
            /\ UNCHANGED users
       ELSE /\ users' = Append(users, NewRow(users, clerk_id[h]))
            /\ response' = [response EXCEPT ![h] =
                              Created(NewRow(users, clerk_id[h]))]
    /\ UNCHANGED <<unique_clerk_id, payload, clerk_id, calls, created_calls>>

\* lines 71-90: the insert and the answer
InsertUser(h) ==
    /\ hpc[h] = "insert"
    /\ hpc' = [hpc EXCEPT ![h] = "done"]
    /\ IF InsertRefused(users, clerk_id[h])
       THEN \* execute() raises; caught by `except Exception`
            /\ response' = [response EXCEPT ![h] =
                              Internal500("duplicate key value violates unique constraint")]
            /\ UNCHANGED users
       ELSE LET row == NewRow(users, clerk_id[h])
                result_data == << row >>
            IN /\ users' = Append(users, row)
               /\ response' = [response EXCEPT ![h] =
                                 IF result_data = << >> THEN CreateFailed500
                                 ELSE Created(result_data[1])]
    /\ UNCHANGED <<unique_clerk_id, payload, clerk_id, calls, created_calls>>

\* the answer has been sent; the server worker takes the next request
Respond(h) ==
    /\ hpc[h] = "done"
    /\ hpc' = [hpc EXCEPT ![h] = "idle"]
    /\ payload' = [payload EXCEPT ![h] = PyNone]
    /\ clerk_id' = [clerk_id EXCEPT ![h] = ""]
    /\ response' = [response EXCEPT ![h] = NoResponse]
    /\ UNCHANGED <<users, unique_clerk_id, calls, created_calls>>

\* requests served one after another: a call starts when no other is running
NoneRunning == \A h \in Handlers : hpc[h] = "idle"

ReceiveSequential(h, data) == NoneRunning /\ Receive(h, data)

HookParked ==
    /\ users = << >>
    /\ unique_clerk_id = FALSE
    /\ hpc = [h \in Handlers |-> "off"]
    /\ payload = [h \in Handlers |-> PyNone]
    /\ clerk_id = [h \in Handlers |-> ""]
    /\ response = [h \in Handlers |-> NoResponse]
    /\ calls = 0
    /\ created_calls = [c \in ClerkIds |-> 0]

HookInit ==
    /\ users = << >>
    /\ unique_clerk_id \in BOOLEAN
    /\ hpc = [h \in Handlers |-> "idle"]
    /\ payload = [h \in Handlers |-> PyNone]
    /\ clerk_id = [h \in Handlers |-> ""]
    /\ response = [h \in Handlers |-> NoResponse]
    /\ calls = 0
    /\ created_calls = [c \in ClerkIds |-> 0]

(***************************************************************************)
(* The ambient logging context (src.config.logging): a correlation id set  *)
(* for the running unit of work, "" when none is set.  Every record logged *)
(* carries the id the context holds at that moment.                        *)
(***************************************************************************)
NoId == ""
set_request_id(ctx, id) == id
clear_context(ctx) == NoId
LogRecord(ctx, event, fields) ==
    [event |-> event, request_id |-> ctx, fields |-> fields]

(***************************************************************************)
(* LoggingMiddleware.dispatch.  The coroutine has one suspension point,    *)
(* `await call_next(request)`: the code before it and the code after it    *)
(* each run without interruption.                                          *)
(***************************************************************************)
Requests == {"r1", "r2"}
Uuids == {"uuid_1", "uuid_2", "uuid_3", "uuid_4"}
StatusCodes == {200, 400}
Errors == {"boom"}

NoOutcome == [kind |-> "none"]
\* what `await call_next(request)` gives: a response, or an exception (an
\* Exception instance, which `except Exception` catches)
Outcomes ==
    { [kind |-> "response", status_code |-> c, headers |-> << >>] :
        c \in StatusCodes }
    \cup { [kind |-> "raise", error |-> e] : e \in Errors }

NoSent == [status_code |-> 0, headers |-> << >>]

\* response.headers["X-Request-ID"] = request_id
WithRequestId(resp, id) ==
    [status_code |-> resp.status_code,
     headers |-> [k \in {"X-Request-ID"} |-> id]]

\* lines 20-24: up to the await
DispatchEnter(r, id) ==
    /\ mpc[r] = "idle"
    /\ requests_seen < MaxRequests
    /\ id \notin used_ids
    /\ requests_seen' = requests_seen + 1
    /\ used_ids' = used_ids \cup {id}
    /\ request_id' = [request_id EXCEPT ![r] = id]
    /\ LET ctx == set_request_id(context[r], id)
       IN /\ context' = [context EXCEPT ![r] = ctx]
          /\ rlog' = [rlog EXCEPT ![r] =
                        << LogRecord(ctx, "request_started", << >>) >>]
    /\ mpc' = [mpc EXCEPT ![r] = "awaiting"]
    /\ downstream' = [downstream EXCEPT ![r] = NoOutcome]
    /\ sent' = [sent EXCEPT ![r] = NoSent]

\* DispatchResume without the `finally: clear_context()`
DispatchResumeNoFinally(r, outcome) ==
    /\ mpc[r] = "awaiting"
    /\ downstream' = [downstream EXCEPT ![r] = outcome]
    /\ IF outcome.kind = "response"
       THEN /\ rlog' = [rlog EXCEPT ![r] =
                          Append(@, LogRecord(context[r], "request_completed",
                                              << outcome.status_code >>))]
            /\ sent' = [sent EXCEPT ![r] = WithRequestId(outcome, request_id[r])]
            /\ mpc' = [mpc EXCEPT ![r] = "returned"]
       ELSE /\ rlog' = [rlog EXCEPT ![r] =
                          Append(@, LogRecord(context[r], "request_failed",
                                              << outcome.error >>))]
            /\ mpc' = [mpc EXCEPT ![r] = "raised"]
            /\ UNCHANGED sent
    /\ UNCHANGED <<context, request_id, used_ids, requests_seen>>

\* lines 25-35: from the await to the exit of dispatch
DispatchResume(r, outcome) ==
    /\ mpc[r] = "awaiting"
    /\ downstream' = [downstream EXCEPT ![r] = outcome]
    /\ IF outcome.kind = "response"
       THEN \* request_completed, the header, return response
            /\ rlog' = [rlog EXCEPT ![r] =
                          Append(@, LogRecord(context[r], "request_completed",
                                              << outcome.status_code >>))]
            /\ sent' = [sent EXCEPT ![r] = WithRequestId(outcome, request_id[r])]
            /\ mpc' = [mpc EXCEPT ![r] = "returned"]
       ELSE \* except Exception: request_failed, raise
            /\ rlog' = [rlog EXCEPT ![r] =
                          Append(@, LogRecord(context[r], "request_failed",
                                              << outcome.error >>))]
            /\ mpc' = [mpc EXCEPT ![r] = "raised"]
            /\ UNCHANGED sent
    \* finally: clear_context()
    /\ context' = [context EXCEPT ![r] = clear_context(@)]
    /\ UNCHANGED <<request_id, used_ids, requests_seen>>

\* the exception dispatch re-raised reaches the server's error handler, which
\* answers 500; dispatch has exited and adds nothing to that response
ServerError(r) ==
    /\ mpc[r] = "raised"
    /\ sent' = [sent EXCEPT ![r] = [status_code |-> 500, headers |-> << >>]]
    /\ mpc' = [mpc EXCEPT ![r] = "sent"]
    /\ UNCHANGED <<request_id, context, rlog, downstream, used_ids, requests_seen>>

\* the response dispatch returned goes out
SendResponse(r) ==
    /\ mpc[r] = "returned"
    /\ mpc' = [mpc EXCEPT ![r] = "sent"]
    /\ UNCHANGED <<request_id, context, rlog, downstream, sent, used_ids,
                   requests_seen>>

\* the connection takes its next request
NextRequest(r) ==
    /\ mpc[r] = "sent"
    /\ mpc' = [mpc EXCEPT ![r] = "idle"]
    /\ request_id' = [request_id EXCEPT ![r] = NoId]
    /\ rlog' = [rlog EXCEPT ![r] = << >>]
    /\ downstream' = [downstream EXCEPT ![r] = NoOutcome]
    /\ sent' = [sent EXCEPT ![r] = NoSent]
    /\ UNCHANGED <<context, used_ids, requests_seen>>

MwStart(state) ==
    /\ mpc = [r \in Requests |-> state]
    /\ request_id = [r \in Requests |-> NoId]
    /\ context = [r \in Requests |-> NoId]
    /\ rlog = [r \in Requests |-> << >>]
    /\ downstream = [r \in Requests |-> NoOutcome]
    /\ sent = [r \in Requests |-> NoSent]
    /\ used_ids = {}
    /\ requests_seen = 0

MwParked == MwStart("off")
MwInit == MwStart("idle")

(***************************************************************************)
(* The task-queue integration (celery.py).                                 *)
(***************************************************************************)
\* the names celery.py binds at module level: its imports (lines 1-4) and
\* its own definitions.  A call of any other name raises NameError.
ModuleGlobals ==
    { "Celery", "appConfig", "get_logger",
      "task_prerun", "task_postrun", "task_failure", "worker_process_init",
      "app", "init_worker_process", "task_prerun_handler",
      "task_postrun_handler", "task_failure_handler",
      "perform_rag_ingestion_task" }

Bound(name) == name \in ModuleGlobals

NameError(name) == << "name '", name, "' is not defined" >>

TaskIds == {"task_1", "task_2", "task_3"}
DocumentIds == {"doc_1", "doc_2", "doc_3"}
\* the positional arguments a task message carries
TaskArgs == { << d >> : d \in DocumentIds } \cup { << >> }

NoResult == [kind |-> "none", value |-> << >>]
Returns(v) == [kind |-> "return", value |-> v]
Raises(e) == [kind |-> "raise", value |-> e]

\* what process_document(document_id) can give by its contract: the mapping
\* with document_id and chunks_created, a result lacking document_id, a
\* result that is no mapping, or an exception (an Exception instance)
ContractOutcomes(document_id) ==
    { Returns(PyDict([document_id |-> PyStr(document_id),
                      chunks_created |-> PyInt(3)])),
      Returns(PyDict([chunks_created |-> PyInt(3)])),
      Returns(PyNone),
      Raises(<< "Unsupported file_type: xyz" >>) }

\* what the call process_document(document_id) gives inside the task body:
\* the name is looked up in the module's globals first
ProcessDocumentOutcomes(document_id) ==
    IF Bound("process_document")
    THEN ContractOutcomes(document_id)
    ELSE { Raises(NameError("process_document")) }

FailedMessage(document_id, err) ==
    << "Failed to process document ", document_id, ": " >> \o err
SuccessMessage(id) == << "Document ", id, " processed successfully" >>

\* perform_rag_ingestion_task with the handler re-raising instead of
\* returning the failure string
perform_rag_ingestion_task_reraise(document_id, pd) ==
    IF pd.kind = "raise" THEN Raises(pd.value)
    ELSE IF ~IsInstance(pd.value, "dict")
    THEN Raises(<< "'NoneType' object has no attribute 'get'" >>)
    ELSE IF "document_id" \notin DOMAIN pd.value.v
    THEN Raises(<< "'document_id'" >>)
    ELSE Returns(SuccessMessage(pd.value.v["document_id"].v))

\* lines 50-63: the value the task body gives for one outcome pd of
\* process_document
perform_rag_ingestion_task(document_id, pd) ==
    IF pd.kind = "raise"
    THEN Returns(FailedMessage(document_id, pd.value))
    ELSE IF ~IsInstance(pd.value, "dict")
    THEN \* process_document_result.get: AttributeError
         Returns(FailedMessage(document_id,
                               << "'NoneType' object has no attribute 'get'" >>))
    ELSE IF "document_id" \notin DOMAIN pd.value.v
    THEN \* process_document_result['document_id']: KeyError
         Returns(FailedMessage(document_id, << "'document_id'" >>))
    ELSE Returns(SuccessMessage(pd.value.v["document_id"].v))

\* task_prerun_handler.  An exception of a signal receiver is caught and
\* logged by the signal dispatch, and the task goes on.
TaskPrerun(id, args) ==
    /\ wpc = "idle"
    /\ tasks_run < MaxTasks
    /\ tasks_run' = tasks_run + 1
    /\ task' = [id |-> id, args |-> args]
    /\ pd_outcome' = NoResult
    /\ result' = NoResult
    /\ IF Bound("set_request_id")
       THEN LET ctx == set_request_id(wctx, id)
            IN /\ wctx' = ctx
               /\ wlog' = << LogRecord(ctx, "task_started", << id >>) >>
       ELSE \* NameError at the first statement of the handler
            /\ wctx' = wctx
            /\ wlog' = << >>
    /\ wpc' = "body"

\* the task body runs: perform_rag_ingestion_task(*args)
TaskBody ==
    /\ wpc = "body"
    /\ IF Len(task.args) # 1
       THEN \* the call itself fails: TypeError escapes the task
            /\ pd_outcome' = NoResult
            /\ result' = Raises(<< "missing 1 required positional argument" >>)
            /\ wlog' = wlog
            /\ wpc' = "failure"
       ELSE \E pd \in ProcessDocumentOutcomes(task.args[1]) :
              LET r == perform_rag_ingestion_task(task.args[1], pd)
                  ok == r.kind = "return" /\ r.value[1] = "Document "
              IN /\ pd_outcome' = pd
                 /\ result' = r
                 /\ wlog' = wlog \o
                      << LogRecord(wctx, "processing_document", << >>),
                         LogRecord(wctx,
                                   IF ok THEN "document_processed_successfully"
                                   ELSE "document_processing_failed", << >>) >>
                 /\ wpc' = IF r.kind = "raise" THEN "failure" ELSE "postrun"
    /\ UNCHANGED <<task, wctx, tasks_run>>

\* task_failure_handler: sent when an exception escaped the task body
TaskFailure ==
    /\ wpc = "failure"
    /\ wlog' = Append(wlog, LogRecord(wctx, "task_failed", result.value))
    /\ wctx' = IF Bound("clear_context") THEN clear_context(wctx) ELSE wctx
    /\ wpc' = "postrun"
    /\ UNCHANGED <<task, pd_outcome, result, tasks_run>>

\* task_postrun_handler: sent after every task run
TaskPostrun ==
    /\ wpc = "postrun"
    /\ wlog' = Append(wlog, LogRecord(wctx, "task_completed", << task.id >>))
    /\ wctx' = IF Bound("clear_context") THEN clear_context(wctx) ELSE wctx
    /\ wpc' = "idle"
    /\ UNCHANGED <<task, pd_outcome, result, tasks_run>>

WorkerStart(state) ==
    /\ wpc = state
    /\ task = [id |-> NoId, args |-> << >>]
    /\ wctx = NoId
    /\ wlog = << >>
    /\ pd_outcome = NoResult
    /\ result = NoResult
    /\ tasks_run = 0

WorkerParked == WorkerStart("off")
WorkerInit == WorkerStart("idle")

(***************************************************************************)
(* Configuration loading (config/index.py): the module body, run once at   *)
(* import.                                                                 *)
(***************************************************************************)
EnvKeys ==
    { "SUPABASE_API_URL", "SUPABASE_SECRET_KEY", "CLERK_SECRET_KEY", "DOMAIN",
      "R2_ACCESS_KEY", "R2_SECRET_KEY", "R2_BUCKET", "R2_ACCOUNT_ID",
      "REDIS_URL", "OPENAI_API_KEY", "SCRAPING_DO_API_KEY", "TAVILY_API_KEY" }

\* the value a set variable holds: one per variable, so that a value read
\* from the wrong variable shows
EnvValue(k) == PyStr(k)

\* a variable is unset (os.getenv gives None), set to "", or set to its value
EnvChoice(k, c) ==
    IF c = "unset" THEN PyNone
    ELSE IF c = "empty" THEN PyStr("")
    ELSE EnvValue(k)

\* os.getenv(k)
getenv(env, k) == env[k]

\* `not os.getenv(k)`
Missing(env, k) == ~Truthy(getenv(env, k))

NoError == << >>
SupabaseError ==
    << "SUPABASE_API_URL and SUPABASE_SECRET_KEY must be set in .env file" >>
ClerkError == << "CLERK_SECRET_KEY and DOMAIN must be set in .env file" >>
R2Error ==
    << "R2_ACCESS_KEY, R2_SECRET_KEY, R2_BUCKET, and R2_ACCOUNT_ID must be set in .env file" >>
RedisError == << "REDIS_URL must be set in .env file" >>
OpenAIError == << "OPENAI_API_KEY must be set in .env file" >>
ScrapingError == << "SCRAPING_DO_API_KEY must be set in .env file" >>
TavilyError == << "TAVILY_API_KEY must be set in .env file" >>

\* StartupChecks with the R2 check having lost its R2_BUCKET member
StartupChecksNoBucket(env) ==
    IF Missing(env, "SUPABASE_API_URL") \/ Missing(env, "SUPABASE_SECRET_KEY")
    THEN SupabaseError
    ELSE IF Missing(env, "CLERK_SECRET_KEY") \/ Missing(env, "DOMAIN")
    THEN ClerkError
    ELSE IF \/ Missing(env, "R2_ACCESS_KEY")
            \/ Missing(env, "R2_SECRET_KEY")
            \/ Missing(env, "R2_ACCOUNT_ID")
    THEN R2Error
    ELSE IF Missing(env, "REDIS_URL") THEN RedisError
    ELSE IF Missing(env, "OPENAI_API_KEY") THEN OpenAIError
    ELSE IF Missing(env, "SCRAPING_DO_API_KEY") THEN ScrapingError
    ELSE IF Missing(env, "TAVILY_API_KEY") THEN TavilyError
    ELSE NoError

\* lines 6-45: the checks in source order; the message of the first
\* ValueError raised, NoError when none is
StartupChecks(env) ==
    IF Missing(env, "SUPABASE_API_URL") \/ Missing(env, "SUPABASE_SECRET_KEY")
    THEN SupabaseError
    ELSE IF Missing(env, "CLERK_SECRET_KEY") \/ Missing(env, "DOMAIN")
    THEN ClerkError
    ELSE IF \/ Missing(env, "R2_ACCESS_KEY")
            \/ Missing(env, "R2_SECRET_KEY")
            \/ Missing(env, "R2_BUCKET")
            \/ Missing(env, "R2_ACCOUNT_ID")
    THEN R2Error
    ELSE IF Missing(env, "REDIS_URL") THEN RedisError
    ELSE IF Missing(env, "OPENAI_API_KEY") THEN OpenAIError
    ELSE IF Missing(env, "SCRAPING_DO_API_KEY") THEN ScrapingError
    ELSE IF Missing(env, "TAVILY_API_KEY") THEN TavilyError
    ELSE NoError

\* lines 48-61: the appConfig literal
BuildAppConfig(env) ==
    [supabase_api_url    |-> getenv(env, "SUPABASE_API_URL"),
     supabase_secret_key |-> getenv(env, "SUPABASE_SECRET_KEY"),
     clerk_secret_key    |-> getenv(env, "CLERK_SECRET_KEY"),
     domain              |-> getenv(env, "DOMAIN"),
     r2_access_key       |-> getenv(env, "R2_ACCESS_KEY"),
     r2_secret_key       |-> getenv(env, "R2_SECRET_KEY"),
     r2_bucket           |-> getenv(env, "R2_BUCKET"),
     r2_account_id       |-> getenv(env, "R2_ACCOUNT_ID"),
     redis_url           |-> getenv(env, "REDIS_URL"),
     openai_api_key      |-> getenv(env, "OPENAI_API_KEY"),
     scraping_do_api_key |-> getenv(env, "SCRAPING_DO_API_KEY"),
     tavily_api_key      |-> getenv(env, "TAVILY_API_KEY")]

NoConfig == << >>

\* the module body succeeds: every check passed, appConfig is bound
LoadConfig ==
    /\ cfg_pc = "start"
    /\ StartupChecks(environ) = NoError
    /\ appConfig' = BuildAppConfig(environ)
    /\ cfg_pc' = "loaded"
    /\ UNCHANGED <<environ, config_error>>

\* the module body raises ValueError at the first failing check
FailConfig ==
    /\ cfg_pc = "start"
    /\ StartupChecks(environ) # NoError
    /\ config_error' = StartupChecks(environ)
    /\ cfg_pc' = "failed"
    /\ UNCHANGED <<environ, appConfig>>

ConfigParked ==
    /\ environ = [k \in EnvKeys |-> PyNone]
    /\ cfg_pc = "off"
    /\ appConfig = NoConfig
    /\ config_error = NoError

\* any subset of the variables is set; the others are all unset or all ""
ConfigInit ==
    /\ \E absent \in {"unset", "empty"} :
          environ \in { [k \in EnvKeys |->
                            EnvChoice(k, IF k \in S THEN "set" ELSE absent)] :
                        S \in SUBSET EnvKeys }
    /\ cfg_pc = "start"
    /\ appConfig = NoConfig
    /\ config_error = NoError

ChunkParked ==
    /\ elements = << >>
    /\ pos = 0
    /\ chunks = << >>
    /\ current_texts = << >>
    /\ current_elements = << >>
    /\ current_char_count = 0
    /\ current_page = 1
    /\ cpc = "off"
    /\ content_data = << >>
    /\ title_splits = {}

ChunkInit ==
    /\ elements \in SeqsUpTo(ElementUniverse, MaxElems)
    /\ pos = 0
    /\ chunks = << >>
    /\ current_texts = << >>
    /\ current_elements = << >>
    /\ current_char_count = 0
    /\ current_page = 1
    /\ cpc = "loop"
    /\ content_data = << >>
    /\ title_splits = {}

(***************************************************************************)
(* Specifications: one per component.                                      *)
(***************************************************************************)
\* chunk_by_title followed by separate_content_types
Init ==
    ChunkInit /\ HookParked /\ MwParked /\ WorkerParked /\ ConfigParked

Next ==
    \/ ChunkLoop /\ UNCHANGED <<hookVars, mwVars, workerVars, configVars>>
    \/ ChunkFinish /\ UNCHANGED <<hookVars, mwVars, workerVars, configVars>>
    \/ ChunkEmpty /\ UNCHANGED <<hookVars, mwVars, workerVars, configVars>>
    \/ Classify /\ UNCHANGED <<hookVars, mwVars, workerVars, configVars>>

Spec == Init /\ [][Next]_vars

\* create_user, requests served one after another
HookSeqInit ==
    HookInit /\ ChunkParked /\ MwParked /\ WorkerParked /\ ConfigParked

HookSeqNext ==
    \/ \E h \in Handlers, data \in Payloads :
         ReceiveSequential(h, data) /\ UNCHANGED <<chunkVars, mwVars, workerVars, configVars>>
    \/ \E h \in Handlers :
         CheckExisting(h) /\ UNCHANGED <<chunkVars, mwVars, workerVars, configVars>>
    \/ \E h \in Handlers :
         InsertUser(h) /\ UNCHANGED <<chunkVars, mwVars, workerVars, configVars>>
    \/ \E h \in Handlers :
         Respond(h) /\ UNCHANGED <<chunkVars, mwVars, workerVars, configVars>>

SpecHookSeq == HookSeqInit /\ [][HookSeqNext]_vars

\* create_user, handlers of several server workers running concurrently
HookRaceInit ==
    HookInit /\ ChunkParked /\ MwParked /\ WorkerParked /\ ConfigParked

HookRaceNext ==
    \/ \E h \in Handlers, data \in Payloads :
         Receive(h, data) /\ UNCHANGED <<chunkVars, mwVars, workerVars, configVars>>
    \/ \E h \in Handlers :
         CheckExisting(h) /\ UNCHANGED <<chunkVars, mwVars, workerVars, configVars>>
    \/ \E h \in Handlers :
         InsertUser(h) /\ UNCHANGED <<chunkVars, mwVars, workerVars, configVars>>
    \/ \E h \in Handlers :
         Respond(h) /\ UNCHANGED <<chunkVars, mwVars, workerVars, configVars>>

SpecHookRace == HookRaceInit /\ [][HookRaceNext]_vars

\* LoggingMiddleware.dispatch over concurrently handled requests
MwSpecInit ==
    MwInit /\ ChunkParked /\ HookParked /\ WorkerParked /\ ConfigParked

MwNext ==
    \/ \E r \in Requests, id \in Uuids :
         DispatchEnter(r, id) /\ UNCHANGED <<chunkVars, hookVars, workerVars, configVars>>
    \/ \E r \in Requests, o \in Outcomes :
         DispatchResume(r, o) /\ UNCHANGED <<chunkVars, hookVars, workerVars, configVars>>
    \/ \E r \in Requests :
         ServerError(r) /\ UNCHANGED <<chunkVars, hookVars, workerVars, configVars>>
    \/ \E r \in Requests :
         SendResponse(r) /\ UNCHANGED <<chunkVars, hookVars, workerVars, configVars>>
    \/ \E r \in Requests :
         NextRequest(r) /\ UNCHANGED <<chunkVars, hookVars, workerVars, configVars>>

SpecMiddleware == MwSpecInit /\ [][MwNext]_vars

\* a worker process running tasks one after another
WorkerSpecInit ==
    WorkerInit /\ ChunkParked /\ HookParked /\ MwParked /\ ConfigParked

WorkerNext ==
    \/ \E id \in TaskIds, args \in TaskArgs :
         TaskPrerun(id, args) /\ UNCHANGED <<chunkVars, hookVars, mwVars, configVars>>
    \/ TaskBody /\ UNCHANGED <<chunkVars, hookVars, mwVars, configVars>>
    \/ TaskFailure /\ UNCHANGED <<chunkVars, hookVars, mwVars, configVars>>
    \/ TaskPostrun /\ UNCHANGED <<chunkVars, hookVars, mwVars, configVars>>

SpecWorker == WorkerSpecInit /\ [][WorkerNext]_vars

\* the configuration module imported at process start
ConfigSpecInit ==
    ConfigInit /\ ChunkParked /\ HookParked /\ MwParked /\ WorkerParked

ConfigNext ==
    \/ LoadConfig /\ UNCHANGED <<chunkVars, hookVars, mwVars, workerVars>>
    \/ FailConfig /\ UNCHANGED <<chunkVars, hookVars, mwVars, workerVars>>

SpecConfig == ConfigSpecInit /\ [][ConfigNext]_vars

(***************************************************************************)
(* Properties of chunk_by_title and separate_content_types.                *)
(***************************************************************************)
Returned == cpc \in {"returned", "classified"}

\* C1: every returned chunk has len(chunk.text) <= max_characters unless it
\* contains an element whose text alone is longer than max_characters (so
\* with every element text <= 3000 every chunk text is <= 3000).
C1_ChunkSizeBound ==
    Returned =>
      \A i \in DOMAIN chunks :
        StrLen(chunks[i].text) > max_characters =>
          \E j \in DOMAIN chunks[i].metadata.orig_elements :
            StrLen(chunks[i].metadata.orig_elements[j].text) > max_characters

\* the positions of the Table-typed elements of a chunk
TablesOf(chunk) ==
    { j \in DOMAIN chunk.metadata.orig_elements :
        chunk.metadata.orig_elements[j].element_type = "Table" }

\* C9: a returned chunk whose orig_elements hold exactly one element of
\* element_type Table (and no Image) is classified with types {text, table},
\* a tables list holding exactly that element's HTML, and no images.
C9_TableClassified ==
    cpc = "classified" =>
      \A i \in DOMAIN chunks :
        Cardinality(TablesOf(chunks[i])) = 1 =>
          LET j == CHOOSE k \in TablesOf(chunks[i]) : TRUE
          IN /\ content_data[i].types = {"text", "table"}
             /\ content_data[i].tables
                  = << chunks[i].metadata.orig_elements[j].text >>
             /\ content_data[i].images = << >>

\* C10: the page number of every chunk chunk_by_title has emitted is the page
\* number of the first element of its orig_elements, during the first pass
\* and in the returned (merged) list.
C10_PageOfFirstElement ==
    \A i \in DOMAIN chunks :
      chunks[i].metadata.page_number
        = chunks[i].metadata.orig_elements[1].metadata.page_number

\* the lengths of two adjacent chunk texts
PairLens(cs, i) == << StrLen(cs[i].text), StrLen(cs[i + 1].text) >>

\* C12: the list chunk_by_title returns is a fixed point of its merge pass:
\* the pass applied to it again returns the same list, and no returned chunk
\* shorter than 500 characters is followed by a chunk with which its
\* combined length is at most 3000.
C12_MergeFixedPoint ==
    Returned =>
      /\ MergePass(chunks) = chunks
      /\ \A i \in 1..(Len(chunks) - 1) :
            ~ (/\ PairLens(chunks, i)[1] < 500
               /\ PairLens(chunks, i)[1] + PairLens(chunks, i)[2] <= 3000)

\* witness of C12: a returned list in which a chunk shorter than 500
\* characters is followed by another chunk
C12_SmallChunkKept ==
    /\ Returned
    /\ \E i \in 1..(Len(chunks) - 1) : StrLen(chunks[i].text) < 500

\* the orig_elements of the chunks of a list, concatenated in chunk order
RECURSIVE FlattenElements(_)
FlattenElements(cs) ==
    IF cs = << >> THEN << >>
    ELSE cs[1].metadata.orig_elements \o FlattenElements(Tail(cs))

\* the position in the input of the first orig_element of chunk i
StartOf(cs, i) == 1 + Len(FlattenElements(SubSeq(cs, 1, i - 1)))

\* C13: a Title or Header element reached while the accumulated character
\* count is at least 500 closes the current chunk and is the first element
\* of a new one, and stays the first orig_element of its chunk in the
\* returned list.
C13_TitleSplit ==
    \A k \in title_splits :
      \/ /\ cpc = "loop"
         /\ current_elements # << >>
         /\ k = pos - Len(current_elements) + 1
         /\ k = 1 + Len(FlattenElements(chunks))
         /\ current_elements[1] = elements[k]
      \/ \E i \in DOMAIN chunks :
           /\ i > 1
           /\ StartOf(chunks, i) = k
           /\ chunks[i].metadata.orig_elements[1] = elements[k]

\* witness of C13: a returned list of which a chunk starts at a Title
\* reached with at least 500 characters accumulated
C13_SplitAtTitle ==
    /\ Returned
    /\ \E k \in title_splits, i \in DOMAIN chunks :
         /\ StartOf(chunks, i) = k
         /\ is_title(chunks[i].metadata.orig_elements[1])

\* the texts of the orig_elements of a chunk, in order
ElemTexts(chunk) ==
    [j \in DOMAIN chunk.metadata.orig_elements |->
        chunk.metadata.orig_elements[j].text]

TextConsistent(chunk) == chunk.text = Join(ElemTexts(chunk))

\* C14: the text of every chunk chunk_by_title has emitted or returned is
\* the texts of its orig_elements, in order, joined by "\n\n"; merging
\* two adjacent chunks as the merge pass does keeps it so.
C14_TextIsJoinedElements ==
    \A i \in DOMAIN chunks :
      /\ TextConsistent(chunks[i])
      /\ i < Len(chunks) => TextConsistent(MergeTwo(chunks[i], chunks[i + 1]))

\* witness of C14: a returned list of several chunks, one of them built
\* from several elements
C14_MultiElementChunk ==
    /\ Returned
    /\ Len(chunks) > 1
    /\ \E i \in DOMAIN chunks : Len(chunks[i].metadata.orig_elements) > 1

\* C15: the orig_elements of the returned chunks, concatenated in chunk
\* order, are exactly the input sequence; no chunk has an empty
\* orig_elements; an empty input returns an empty list.  During the first
\* pass the chunks closed so far and the chunk under construction hold
\* exactly the elements consumed.
C15_ElementConservation ==
    /\ Returned =>
          /\ FlattenElements(chunks) = elements
          /\ elements = << >> => chunks = << >>
    /\ cpc = "loop" =>
          FlattenElements(chunks) \o current_elements = SubSeq(elements, 1, pos)
    /\ \A i \in DOMAIN chunks : chunks[i].metadata.orig_elements # << >>

\* witness of C15: three elements returned in more than one chunk
C15_AllElementsReturned ==
    /\ Returned
    /\ Len(elements) = 3
    /\ Len(chunks) > 1

(***************************************************************************)
(* Properties of create_user.                                              *)
(***************************************************************************)
EmptyDataPayload == PyDict([type |-> PyStr("user.created"), data |-> EmptyDict])

\* C2: {"type": "user.created", "data": {}} is answered with the 400 for a
\* missing/invalid clerk_id, and the 400 for missing/invalid user data is
\* given only when data is absent or not a mapping.
C2_ValidationOrdering ==
    \A h \in Handlers :
      hpc[h] = "done" =>
        /\ payload[h] = EmptyDataPayload => response[h] = InvalidClerkId400
        /\ response[h] = InvalidUserData400 =>
             ~IsInstance(Get(payload[h], "data"), "dict")

RowsOf(cid) == SelectByClerkId(users, cid)

C4_InsertNotPrevented ==
    [][ \A h \in Handlers :
          (hpc[h] = "insert" /\ hpc'[h] # "insert") =>
            IF unique_clerk_id /\ RowsOf(clerk_id[h]) # << >>
            THEN users' = users /\ response'[h].status = 500
            ELSE /\ users' = Append(users, NewRow(users, clerk_id[h]))
                 /\ response'[h] = Created(NewRow(users, clerk_id[h])) ]_vars

\* both handlers passed the check before either inserted, and both inserted
C4_DuplicateInserted ==
    \E c \in ClerkIds :
      /\ Len(RowsOf(c)) = 2
      /\ \A h \in Handlers :
           /\ hpc[h] = "done"
           /\ clerk_id[h] = c
           /\ response[h].status = 200
           /\ response[h].body.message = << "User created successfully" >>

(***************************************************************************)
(* Properties of perform_rag_ingestion_task.                               *)
(***************************************************************************)
\* ingestion succeeded: process_document returned a mapping with document_id
Succeeded(pd) ==
    /\ pd.kind = "return"
    /\ IsInstance(pd.value, "dict")
    /\ "document_id" \in DOMAIN pd.value.v

\* the text e occurs within the message m
Contains(m, e) ==
    \E i \in 1..(Len(m) - Len(e) + 1) : SubSeq(m, i, i + Len(e) - 1) = e

\* what the claim asks of the value r the task body gives for document d
\* when process_document gave pd
TaskContract(d, pd, r) ==
    /\ r.kind = "return"
    /\ IF Succeeded(pd)
       THEN r.value = SuccessMessage(pd.value.v["document_id"].v)
       ELSE /\ SubSeq(r.value, 1, 2) = << "Failed to process document ", d >>
            /\ pd.kind = "raise" => Contains(r.value, pd.value)

\* C5: whatever process_document gives for a document id, the task body
\* returns a string and raises nothing; on failure the string begins with
\* 'Failed to process document {document_id}' and holds the text of the error
\* raised, on success it is 'Document {id} processed successfully'.  Stated
\* of every task run of the worker, and of the task body on every outcome
\* process_document's contract allows.
C5_TaskNeverRaises ==
    /\ (wpc # "body" /\ pd_outcome.kind # "none") =>
         TaskContract(task.args[1], pd_outcome, result)
    /\ \A d \in DocumentIds :
         \A pd \in ContractOutcomes(d) \cup ProcessDocumentOutcomes(d) :
           TaskContract(d, pd, perform_rag_ingestion_task(d, pd))

\* the task body has run on a failing process_document and returned
C5_FailureReturned ==
    /\ wpc = "postrun"
    /\ pd_outcome.kind = "raise"
    /\ result.kind = "return"
    /\ result.value[1] = "Failed to process document "

(***************************************************************************)
(* Properties of LoggingMiddleware.dispatch.                               *)
(***************************************************************************)
\* C6: the response sent for a request, whether the downstream handler
\* returned or raised, carries X-Request-ID equal to the correlation id of
\* the request's request_started record.
C6_ResponseCarriesRequestId ==
    \A r \in Requests :
      mpc[r] = "sent" =>
        /\ "X-Request-ID" \in DOMAIN sent[r].headers
        /\ sent[r].headers["X-Request-ID"] = rlog[r][1].request_id

Exited(r) == mpc[r] \in {"returned", "raised", "sent"}

\* C7: once control has left dispatch the request's context is cleared; the
\* records logged are request_started followed by exactly one of
\* request_completed (the response was returned) or request_failed (the
\* handler raised), both logged under the request's id, i.e. before the
\* clearing; and a raised exception leaves dispatch as an exception.
C7_ContextClearedOnExit ==
    \A r \in Requests :
      Exited(r) =>
        /\ context[r] = NoId
        /\ Len(rlog[r]) = 2
        /\ rlog[r][1].event = "request_started"
        /\ rlog[r][1].request_id = request_id[r]
        /\ rlog[r][2].request_id = request_id[r]
        /\ request_id[r] # NoId
        /\ downstream[r].kind = "response" =>
             /\ rlog[r][2].event = "request_completed"
             /\ mpc[r] # "raised"
        /\ downstream[r].kind = "raise" =>
             /\ rlog[r][2].event = "request_failed"
             /\ rlog[r][2].fields = << downstream[r].error >>
             /\ mpc[r] # "returned"
             /\ mpc[r] = "sent" => sent[r].status_code = 500

\* dispatch has been left by the re-raised exception, context cleared
C7_RaisedAndCleared ==
    \E r \in Requests :
      /\ mpc[r] = "raised"
      /\ downstream[r].kind = "raise"
      /\ context[r] = NoId
      /\ rlog[r][2].event = "request_failed"

(***************************************************************************)
(* Properties of the task lifecycle hooks.                                 *)
(***************************************************************************)
\* C8: the task body runs with the ambient correlation id set to its own
\* task id, task_started having been logged under it, and between task runs
\* the context is clear.
C8_TaskCorrelationId ==
    /\ wpc = "body" =>
         /\ wctx = task.id
         /\ \E i \in DOMAIN wlog :
              /\ wlog[i].event = "task_started"
              /\ wlog[i].request_id = task.id
    /\ wpc = "idle" => wctx = NoId

(***************************************************************************)
(* Configuration loading.                                                  *)
(***************************************************************************)
\* the seven groups of required keys, in the order they are validated
ConfigGroups ==
    << [keys |-> {"SUPABASE_API_URL", "SUPABASE_SECRET_KEY"},
        error |-> SupabaseError],
       [keys |-> {"CLERK_SECRET_KEY", "DOMAIN"}, error |-> ClerkError],
       [keys |-> {"R2_ACCESS_KEY", "R2_SECRET_KEY", "R2_BUCKET",
                  "R2_ACCOUNT_ID"},
        error |-> R2Error],
       [keys |-> {"REDIS_URL"}, error |-> RedisError],
       [keys |-> {"OPENAI_API_KEY"}, error |-> OpenAIError],
       [keys |-> {"SCRAPING_DO_API_KEY"}, error |-> ScrapingError],
       [keys |-> {"TAVILY_API_KEY"}, error |-> TavilyError] >>

\* the key is present in the environment with a non-empty value
Present(k) == environ[k] # PyNone /\ environ[k] # PyStr("")

GroupComplete(i) == \A k \in ConfigGroups[i].keys : Present(k)

\* the environment variable behind each appConfig key
ConfigKeyOf ==
    [supabase_api_url    |-> "SUPABASE_API_URL",
     supabase_secret_key |-> "SUPABASE_SECRET_KEY",
     clerk_secret_key    |-> "CLERK_SECRET_KEY",
     domain              |-> "DOMAIN",
     r2_access_key       |-> "R2_ACCESS_KEY",
     r2_secret_key       |-> "R2_SECRET_KEY",
     r2_bucket           |-> "R2_BUCKET",
     r2_account_id       |-> "R2_ACCOUNT_ID",
     redis_url           |-> "REDIS_URL",
     openai_api_key      |-> "OPENAI_API_KEY",
     scraping_do_api_key |-> "SCRAPING_DO_API_KEY",
     tavily_api_key      |-> "TAVILY_API_KEY"]

\* C11: loading succeeds if and only if all twelve required keys are
\* present and non-empty; when it fails, the error is the one of the first
\* group, in the order Supabase, Clerk/Domain, R2, Redis, OpenAI, Scraping,
\* Tavily, that has a missing member; on success appConfig maps each key to
\* exactly the value the environment holds for it.
C11_StartupValidation ==
    /\ cfg_pc = "loaded" =>
          /\ \A k \in EnvKeys : Present(k)
          /\ DOMAIN appConfig = DOMAIN ConfigKeyOf
          /\ \A f \in DOMAIN ConfigKeyOf :
                appConfig[f] = environ[ConfigKeyOf[f]]
          /\ { ConfigKeyOf[f] : f \in DOMAIN ConfigKeyOf } = EnvKeys
    /\ cfg_pc = "failed" =>
          \E i \in DOMAIN ConfigGroups :
              /\ ~GroupComplete(i)
              /\ \A j \in 1..(i - 1) : GroupComplete(j)
              /\ config_error = ConfigGroups[i].error

\* witness of C11: only R2_BUCKET is missing and loading failed with the
\* R2 error
C11_BucketMissingFailed ==
    /\ cfg_pc = "failed"
    /\ \A k \in EnvKeys : Present(k) <=> k # "R2_BUCKET"
    /\ config_error = R2Error

====
